---- MODULE Spec2Model ----
(***************************************************************************)
(* Model of the distributed-checkpoint state-dict translation layer of     *)
(* nemo/lightning/pytorch/strategies/utils.py:                             *)
(*   mcore_to_pyt_sharded_state_dict  ("mergeLoaded",  with the inner      *)
(*       _mcore_to_pyt_sharded_tensor = "toDialectB")                      *)
(*   pyt_to_mcore_state_dict          ("splitForSave", with the inner      *)
(*       _torch_to_mcore_sharded_tensor = "toDialectA" and                 *)
(*       _torch_to_mcore_sharded_object = "toDialectAObject")              *)
(*                                                                         *)
(* Representation.                                                         *)
(*  - A string key is the sequence of its '.'-separated segments, i.e.     *)
(*    the value of Python's k.split('.'); a segment is a dot-free string.  *)
(*    (mergeLoaded never looks inside a key: its keys are plain strings.)  *)
(*  - A Python dict is the sequence of its items [k, v] in insertion       *)
(*    order (the order "for k in d" visits them), keys pairwise distinct.  *)
(*  - Axis numbers inside rank-offset triples are 0-based as in the code;  *)
(*    TLA+ sequences are 1-based, so axis a is element a + 1.              *)
(*  - A tensor buffer is its shape and an identity.                        *)
(***************************************************************************)
EXTENDS Integers, Sequences, FiniteSets, TLC

VARIABLES
    pc,          \* position of the modelled caller
    sh_ten,      \* Geom: the Dialect-B tensor handed to toDialectA
    prepend,     \* Geom: the prepend offsets handed to toDialectA
    allow,       \* Geom: the allow_shape_mismatch flag handed to toDialectA
    resA,        \* Geom: outcome of toDialectA
    tensIn,      \* Geom: the buffers handed to toDialectB
    resB,        \* Geom: outcome of the first toDialectB
    resB2,       \* Geom: outcome of a second toDialectB on the same descriptors
    checkpoint,  \* Merge: checkpointDict as handed to mergeLoaded
    template,    \* Merge: templateDict as handed to mergeLoaded
    resM,        \* Merge: outcome of mergeLoaded, with both dicts as the call left them
    state_dict,  \* Split: stateDict as handed to splitForSave
    prefix,      \* Split: the caller's prefix
    resS,        \* Split: outcome of splitForSave, with the dict as the call left it
    ranks,       \* Ranks: per rank, the Dialect-B tensor it holds
    resR         \* Ranks: per rank, the outcome of its toDialectA

vars == <<pc, sh_ten, prepend, allow, resA, tensIn, resB, resB2,
          checkpoint, template, resM, state_dict, prefix, resS, ranks, resR>>

None == [kind |-> "None"]

(***************************************************************************)
(* Bounds of the model.                                                    *)
(***************************************************************************)
MaxExtent == 3      \* largest global extent of a tensor axis
MaxShards == 2      \* most local shard records of one tensor on one rank
MaxTens == 2        \* most buffers / descriptors in one leaf
MaxRanks == 3       \* most ranks in the cross-rank scenario
MaxKeys == 2        \* most top-level keys of a state dict handed to splitForSave
MaxLayer == 2       \* largest layer index written in a layer-stack key

(***************************************************************************)
(* Generic helpers.                                                        *)
(***************************************************************************)
Range(s) == {s[i] : i \in DOMAIN s}

Drop(s, n) == IF n >= Len(s) THEN <<>> ELSE SubSeq(s, n + 1, Len(s))

Take(s, n) == IF n >= Len(s) THEN s ELSE SubSeq(s, 1, n)

Minimum(a, b) == IF a <= b THEN a ELSE b

Maximum(a, b) == IF a >= b THEN a ELSE b

\* Python's floor division for a positive divisor.
FloorDiv(a, b) == a \div b

SeqsUpTo(S, n) == UNION {[1..m -> S] : m \in 0..n}

InjSeqsUpTo(S, n) == {s \in SeqsUpTo(S, n) : \A i, j \in DOMAIN s : i # j => s[i] # s[j]}

Buffer(shape, id) == [kind |-> "Tensor", shape |-> shape, id |-> id]

(***************************************************************************)
(* Strings, as the sequence of their '.'-separated segments.               *)
(***************************************************************************)
\* The empty string: ''.split('.') == [''].
EmptyStr == <<"">>

\* f"{a}{b}": the last segment of a and the first of b become one segment.
StrCat(a, b) == Take(a, Len(a) - 1) \o <<a[Len(a)] \o b[1]>> \o Tail(b)

\* f"{a}.": a followed by a dot opens a new, empty segment.
WithDot(a) == Append(a, "")

\* k.startswith(p) for a p that ends with '.' (its last segment is empty):
\* k has the segments of p before the dot, and at least one more.
StartsWithDotted(k, p) ==
    /\ Len(k) >= Len(p)
    /\ \A i \in 1..(Len(p) - 1) : k[i] = p[i]

\* k.endswith(s) for an s that starts with '.' (its first segment is empty):
\* k ends with the segments of s after the dot, and has at least one before.
EndsWithDotted(k, s) ==
    /\ Len(k) >= Len(s)
    /\ \A i \in 2..Len(s) : k[Len(k) - Len(s) + i] = s[i]

(***************************************************************************)
(* megatron.core ShardedTensor (Dialect A): the library the code calls.    *)
(***************************************************************************)
\* ShardedTensor.validate_metadata_integrity: TRUE iff it does not raise.
ValidateMetadataIntegrity(d) ==
    /\ d.data.shape = d.local_shape
    /\ Len(d.global_shape) = Len(d.global_offset)
    /\ Len(d.local_shape) + d.prepend_axis_num = Len(d.global_shape)
    /\ LET offs == Drop(d.global_offset, d.prepend_axis_num)
       IN \A i \in 1..Minimum(Len(offs), Len(d.local_shape)) :
              offs[i] % d.local_shape[i] = 0

\* The loop of ShardedTensor.from_rank_offsets over the rank-offset triples.
RECURSIVE FromRankOffsetsLoop(_, _, _, _, _, _, _)
FromRankOffsetsLoop(ros, shape, pan, seen, gs, go, af) ==
    IF ros = <<>>
    THEN [status |-> "ok", gs |-> gs, go |-> go, af |-> af]
    ELSE LET axis == Head(ros)[1]
             off  == Head(ros)[2]
             frag == Head(ros)[3]
         IN IF axis < 0 \/ off < 0 \/ frag < 0 \/ off >= frag
            THEN [status |-> "AssertionError", gs |-> gs, go |-> go, af |-> af]
            ELSE IF axis \in seen
            THEN [status |-> "CheckpointingException", gs |-> gs, go |-> go, af |-> af]
            ELSE IF axis >= pan + Len(shape)
            THEN [status |-> "IndexError", gs |-> gs, go |-> go, af |-> af]
            ELSE LET las == IF axis < pan THEN 1 ELSE shape[axis - pan + 1]
                 IN FromRankOffsetsLoop(Tail(ros), shape, pan, seen \cup {axis},
                                        [gs EXCEPT ![axis + 1] = frag * las],
                                        [go EXCEPT ![axis + 1] = off * las],
                                        [af EXCEPT ![axis + 1] = frag])

\* ShardedTensor.from_rank_offsets(key, data, *rank_offsets, replica_id,
\* prepend_axis_num, allow_shape_mismatch): [status, desc].
FromRankOffsets(key, data, rank_offsets, replica_id, pan, asm) ==
    LET n == Len(data.shape) + pan
        r == FromRankOffsetsLoop(rank_offsets, data.shape, pan, {},
                                 [i \in 1..n |-> IF i <= pan THEN 1 ELSE data.shape[i - pan]],
                                 [i \in 1..n |-> 0],
                                 [i \in 1..n |-> 1])
        d == [kind |-> "ShardedTensor", key |-> key, data |-> data,
              local_shape |-> data.shape, global_shape |-> r.gs,
              global_offset |-> r.go, axis_fragmentations |-> r.af,
              replica_id |-> replica_id, prepend_axis_num |-> pan,
              allow_shape_mismatch |-> asm]
    IN IF r.status # "ok" THEN [status |-> r.status, desc |-> None]
       ELSE IF ~ValidateMetadataIntegrity(d)
       THEN [status |-> "CheckpointingException", desc |-> None]
       ELSE [status |-> "ok", desc |-> d]

\* sharded_tensor_to_torch_sharded_tensor(sh_tens): the Dialect-B aggregate of
\* the descriptors: the first descriptor's global shape, and one local shard
\* record per descriptor at its global offset with its data's extent.
ShardedTensorToTorchShardedTensor(sh_tens) ==
    [kind |-> "TorchShardedTensor",
     size |-> sh_tens[1].global_shape,
     local_shards |-> [i \in DOMAIN sh_tens |->
         [kind |-> "Shard", tensor |-> sh_tens[i].data,
          shard_offsets |-> sh_tens[i].global_offset,
          shard_sizes |-> sh_tens[i].data.shape,
          placement |-> "rank"]]]

(***************************************************************************)
(* toDialectB: _mcore_to_pyt_sharded_tensor (utils.py 102-115).            *)
(***************************************************************************)
\* A variant of lines 108-111 that would reset prepend_axis_num before the
\* slices that read it.
RemovePrependAxesResetFirst(d) == [d EXCEPT !.prepend_axis_num = 0]

\* Lines 108-111: drop the prepend axes of one descriptor, in place.
RemovePrependAxes(d) ==
    [d EXCEPT !.global_shape = Drop(d.global_shape, d.prepend_axis_num),
              !.global_offset = Drop(d.global_offset, d.prepend_axis_num),
              !.axis_fragmentations = Drop(d.axis_fragmentations, d.prepend_axis_num),
              !.prepend_axis_num = 0]

\* Line 112: put the loaded tensor in.
PutLoadedTensor(d, ten) == [d EXCEPT !.data = ten]

\* Line 106: zip(tens, sh_tens) yields as many pairs as the shorter one has.
ZipLength(tens, sh_tens) == Minimum(Len(tens), Len(sh_tens))

\* The loop of lines 106-113 from pair i on; sh_tens is mutated in place and
\* stays mutated when validate_metadata_integrity raises.
RECURSIVE McoreLoop(_, _, _)
McoreLoop(tens, sh_tens, i) ==
    IF i > ZipLength(tens, sh_tens)
    THEN [status |-> "ok", sh_tens |-> sh_tens]
    ELSE LET d == PutLoadedTensor(RemovePrependAxes(sh_tens[i]), tens[i])
             nxt == [sh_tens EXCEPT ![i] = d]
         IN IF ~ValidateMetadataIntegrity(d)
            THEN [status |-> "CheckpointingException", sh_tens |-> nxt]
            ELSE McoreLoop(tens, nxt, i + 1)

\* _mcore_to_pyt_sharded_tensor(tens, sh_tens): [status, value, sh_tens].
McoreToPytShardedTensor(tens, sh_tens) ==
    LET r == McoreLoop(tens, sh_tens, 1)
    IN IF r.status # "ok"
       THEN [status |-> r.status, value |-> None, sh_tens |-> r.sh_tens]
       ELSE IF r.sh_tens = <<>>
       THEN [status |-> "IndexError", value |-> None, sh_tens |-> r.sh_tens]
       ELSE [status |-> "ok", value |-> ShardedTensorToTorchShardedTensor(r.sh_tens),
             sh_tens |-> r.sh_tens]

(***************************************************************************)
(* toDialectA: _torch_to_mcore_sharded_tensor (utils.py 136-178).          *)
(***************************************************************************)
\* Line 150: all local shards have the placement of the first one.
SamePlacement(local_shards) ==
    \A i \in DOMAIN local_shards : local_shards[i].placement = local_shards[1].placement

\* Line 157: the fragmentation of every axis, from the FIRST local shard.
AxisFragm(global_shape, local_shards) ==
    [j \in DOMAIN global_shape |->
        FloorDiv(global_shape[j], local_shards[1].shard_sizes[j])]

\* Line 165: a shard's rank offset on axis j (1-based here).
AxisRankOffset(meta, j) == FloorDiv(meta.shard_offsets[j], meta.shard_sizes[j])

\* A variant of lines 164-166 that would not shift the real axes past the
\* prepend axes (axis j instead of j + prepend_axis_num).
ShardRankOffsetsUnshifted(meta, axis_fragm, prepend_axis_num) ==
    [j \in DOMAIN axis_fragm |->
        <<j - 1, AxisRankOffset(meta, j), axis_fragm[j]>>]

\* Lines 164-166: the triples one shard appends to rank_offsets.
ShardRankOffsets(meta, axis_fragm, prepend_axis_num) ==
    [j \in DOMAIN axis_fragm |->
        <<(j - 1) + prepend_axis_num, AxisRankOffset(meta, j), axis_fragm[j]>>]

\* Line 158 and 166: rank_offsets is created once, before the loop over the
\* local shards, so shard i is handed what the shards before it appended too.
RankOffsetsAfter(rank_offsets, meta, axis_fragm, prepend_axis_num) ==
    rank_offsets \o ShardRankOffsets(meta, axis_fragm, prepend_axis_num)

\* Lines 171-172: the positional triples: the prepend offsets, then rank_offsets.
HandedOffsets(prepend_offsets, rank_offsets) == prepend_offsets \o rank_offsets

\* Lines 160-176 from shard i on.  handed collects, per call made to
\* from_rank_offsets, the rank_offsets list handed to it.
RECURSIVE TorchLoop(_, _, _, _, _, _, _, _, _)
TorchLoop(key, local_shards, prepend_offsets, pfx, asm, axis_fragm, rank_offsets, handed, i) ==
    IF i > Len(local_shards)
    THEN [status |-> "ok", local_shards |-> local_shards, handed |-> handed]
    ELSE LET meta == local_shards[i]
             ros == RankOffsetsAfter(rank_offsets, meta, axis_fragm, Len(prepend_offsets))
             r == FromRankOffsets(StrCat(pfx, key), meta.tensor,
                                  HandedOffsets(prepend_offsets, ros),
                                  0, Len(prepend_offsets), asm)
         IN IF r.status # "ok"
            THEN [status |-> r.status, local_shards |-> local_shards,
                  handed |-> Append(handed, ros)]
            ELSE TorchLoop(key, [local_shards EXCEPT ![i] = r.desc], prepend_offsets,
                           pfx, asm, axis_fragm, ros, Append(handed, ros), i + 1)

\* _torch_to_mcore_sharded_tensor(key, sh_ten, prepend_offsets, prefix,
\* allow_shape_mismatch): [status, local_shards, handed].  A failing placement
\* assertion evaluates its message, which reads ls.meta (line 151): the shard
\* record has no such attribute.
TorchToMcoreShardedTensor(key, t, prepend_offsets, pfx, asm) ==
    IF t.kind # "TorchShardedTensor"
    THEN [status |-> "AssertionError", local_shards |-> <<>>, handed |-> <<>>]
    ELSE IF ~SamePlacement(t.local_shards)
    THEN [status |-> "AttributeError", local_shards |-> t.local_shards, handed |-> <<>>]
    ELSE TorchLoop(key, t.local_shards, prepend_offsets, pfx, asm,
                   AxisFragm(t.size, t.local_shards), <<>>, <<>>, 1)

(***************************************************************************)
(* Scenario Geom: one Dialect-B tensor is translated by toDialectA, and    *)
(* the descriptors are handed, with buffers, to toDialectB (twice).        *)
(***************************************************************************)
\* Extents of a second tensor axis, when there is one.
Cols == {1, 2}

GeomShapes == {<<e>> : e \in 1..MaxExtent} \cup {<<e, c>> : e \in 1..MaxExtent, c \in Cols}

\* The [offset, size] pairs of the non-empty intervals inside 0..(e - 1).
Intervals(e) == {<<o, n>> : o \in 0..(e - 1), n \in 1..e} \cap
                {<<o, n>> \in (0..e) \X (1..e) : o + n <= e}

\* The boxes inside a tensor of the given shape, as [offsets, sizes].
Boxes(shape) ==
    IF Len(shape) = 1
    THEN {[offsets |-> <<i[1]>>, sizes |-> <<i[2]>>] : i \in Intervals(shape[1])}
    ELSE {[offsets |-> <<i[1], j[1]>>, sizes |-> <<i[2], j[2]>>] :
              i \in Intervals(shape[1]), j \in Intervals(shape[2])}

BoxesDisjoint(a, b) ==
    \E j \in DOMAIN a.offsets :
        \/ a.offsets[j] + a.sizes[j] <= b.offsets[j]
        \/ b.offsets[j] + b.sizes[j] <= a.offsets[j]

Placements == {"rank:0/cuda:0", "rank:0/cpu"}

\* A local shard record: torch's Shard keeps tensor.size() == shard_sizes.
ShardRecord(box, id, placement) ==
    [kind |-> "Shard", tensor |-> Buffer(box.sizes, id),
     shard_offsets |-> box.offsets, shard_sizes |-> box.sizes, placement |-> placement]

\* The Dialect-B tensors of a shape: 1..MaxShards disjoint local shards; the
\* first shard's placement is fixed, the others agree with it or not.
TorchShardedTensors(shape) ==
    {[kind |-> "TorchShardedTensor", size |-> shape,
      local_shards |-> [i \in DOMAIN bs |->
          ShardRecord(bs[i], i, IF i = 1 THEN "rank:0/cuda:0" ELSE pl)]] :
        bs \in {b \in SeqsUpTo(Boxes(shape), MaxShards) :
                   /\ Len(b) >= 1
                   /\ \A i, j \in DOMAIN b : i < j => BoxesDisjoint(b[i], b[j])},
        pl \in Placements}

PrependChoices == {<<>>, <<<<0, 2, 5>>>>, <<<<0, 0, 1>>, <<1, 1, 2>>>>}

GeomKey == <<"decoder", "weight">>

\* The buffers a caller hands to toDialectB for descriptors sh_tens: n of
\* them; buffer i is descriptor i's own data ("own"), a freshly loaded buffer
\* of descriptor i's local extent ("loaded"), or, for the first one, a loaded
\* buffer of another extent ("bad").
BufferModes == {"own", "loaded", "bad"}

LoadedBuffers(sh_tens, n, mode) ==
    [i \in 1..n |->
        LET shp == IF i <= Len(sh_tens) THEN sh_tens[i].local_shape
                   ELSE sh_tens[1].local_shape
        IN IF mode = "own" /\ i <= Len(sh_tens) THEN sh_tens[i].data
           ELSE IF mode = "bad" /\ i = 1
           THEN Buffer([shp EXCEPT ![1] = shp[1] + 1], 100 + i)
           ELSE Buffer(shp, 100 + i)]

Idle == [status |-> "none"]

InitGeom ==
    /\ pc = "toDialectA"
    /\ \E shape \in GeomShapes : sh_ten \in TorchShardedTensors(shape)
    /\ prepend \in PrependChoices
    /\ allow \in BOOLEAN
    /\ resA = Idle /\ tensIn = <<>> /\ resB = Idle /\ resB2 = Idle
    /\ checkpoint = None /\ template = None /\ resM = Idle
    /\ state_dict = None /\ prefix = EmptyStr /\ resS = Idle
    /\ ranks = <<>> /\ resR = <<>>

CallToDialectA ==
    /\ pc = "toDialectA"
    /\ resA' = TorchToMcoreShardedTensor(GeomKey, sh_ten, prepend, EmptyStr, allow)
    /\ pc' = IF resA'.status = "ok" THEN "toDialectB" ELSE "done"
    /\ UNCHANGED <<sh_ten, prepend, allow, tensIn, resB, resB2, checkpoint, template,
                   resM, state_dict, prefix, resS, ranks, resR>>

CallToDialectB ==
    /\ pc = "toDialectB"
    /\ \E n \in 0..MaxTens, mode \in BufferModes :
          tensIn' = LoadedBuffers(resA.local_shards, n, mode)
    /\ resB' = McoreToPytShardedTensor(tensIn', resA.local_shards)
    /\ pc' = IF resB'.status = "ok" THEN "toDialectB again" ELSE "done"
    /\ UNCHANGED <<sh_ten, prepend, allow, resA, resB2, checkpoint, template,
                   resM, state_dict, prefix, resS, ranks, resR>>

CallToDialectBAgain ==
    /\ pc = "toDialectB again"
    /\ resB2' = McoreToPytShardedTensor(tensIn, resB.sh_tens)
    /\ pc' = "done"
    /\ UNCHANGED <<sh_ten, prepend, allow, resA, tensIn, resB, checkpoint, template,
                   resM, state_dict, prefix, resS, ranks, resR>>

NextGeom == CallToDialectA \/ CallToDialectB \/ CallToDialectBAgain

SpecGeom == InitGeom /\ [][NextGeom]_vars

(***************************************************************************)
(* Claims on the Geom scenario.                                            *)
(***************************************************************************)
\* The caller handed toDialectB exactly the descriptors' own buffers.
OwnBuffers == tensIn = [i \in DOMAIN resA.local_shards |-> resA.local_shards[i].data]

\* C7 (as claimed): whenever toDialectB is handed a number of buffers that
\* differs from the number of descriptors, it fails with ArityMismatchError
\* and produces no Dialect-B aggregate.
C7_ArityMismatchRaises ==
    (resB.status # "none" /\ Len(tensIn) # Len(resA.local_shards))
        => (resB.status = "ArityMismatchError" /\ resB.value = None)

\* C8 (as claimed): round trip.  For any Dialect-B tensor, the descriptors
\* toDialectA produced, handed with their own buffers to toDialectB, yield a
\* Dialect-B tensor with the original global shape and, for every local
\* shard, the original offset and extent on every axis.
C8_RoundTrip ==
    (resB.status # "none" /\ OwnBuffers) =>
        /\ resB.status = "ok"
        /\ resB.value.size = sh_ten.size
        /\ Len(resB.value.local_shards) = Len(sh_ten.local_shards)
        /\ \A i \in DOMAIN sh_ten.local_shards :
              /\ resB.value.local_shards[i].shard_offsets = sh_ten.local_shards[i].shard_offsets
              /\ resB.value.local_shards[i].shard_sizes = sh_ten.local_shards[i].shard_sizes

\* The descriptors toDialectA has built so far (it replaces local_shards[i]).
BuiltDescriptors(r) ==
    {i \in DOMAIN r.local_shards : r.local_shards[i].kind = "ShardedTensor"}

\* C9: prepend-axis composition.  With the single prepend offset (0, 2, 5)
\* the first local shard always yields a descriptor, and every descriptor
\* built has prepend_axis_num = 1, global_shape[0] = 5 * 1 and
\* global_offset[0] = 2 * 1 (the local extent along the synthetic leading axis
\* is 1), and carries real axis j at position j + 1: fragmentation
\* global_extent / shard_extent, global shape fragmentation * shard extent,
\* global offset (shard_offset / shard_extent) * shard extent.  A following
\* toDialectB on own buffers succeeds and removes exactly that leading entry
\* from global_shape, global_offset and axis_fragmentations.
C9_PrependComposition ==
    (prepend = <<<<0, 2, 5>>>> /\ resA.status # "none" /\ SamePlacement(sh_ten.local_shards)) =>
        /\ 1 \in BuiltDescriptors(resA)
        /\ \A i \in BuiltDescriptors(resA) :
              LET d == resA.local_shards[i]
                  m == sh_ten.local_shards[i]
              IN /\ d.prepend_axis_num = 1
                 /\ Len(d.global_shape) = Len(sh_ten.size) + 1
                 /\ d.global_shape[1] = 5 /\ d.global_offset[1] = 2
                 /\ d.axis_fragmentations[1] = 5
                 /\ \A j \in DOMAIN sh_ten.size :
                       /\ d.axis_fragmentations[j + 1] =
                              sh_ten.size[j] \div sh_ten.local_shards[1].shard_sizes[j]
                       /\ d.global_shape[j + 1] =
                              d.axis_fragmentations[j + 1] * m.shard_sizes[j]
                       /\ d.global_offset[j + 1] =
                              (m.shard_offsets[j] \div m.shard_sizes[j]) * m.shard_sizes[j]
        /\ (resB.status # "none" /\ OwnBuffers) =>
              /\ resB.status = "ok"
              /\ \A i \in DOMAIN resB.sh_tens :
                    LET a == resA.local_shards[i]
                        b == resB.sh_tens[i]
                    IN /\ b.global_shape = Tail(a.global_shape)
                       /\ b.global_offset = Tail(a.global_offset)
                       /\ b.axis_fragmentations = Tail(a.axis_fragmentations)
                       /\ b.prepend_axis_num = 0
                       /\ Len(b.global_shape) = Len(sh_ten.size)

\* C9 witness: a two-axis tensor went through toDialectA with (0, 2, 5) and
\* then through toDialectB on its own buffers.
C9_Witness ==
    /\ prepend = <<<<0, 2, 5>>>>
    /\ Len(sh_ten.size) = 2
    /\ resA.status = "ok" /\ resB.status = "ok" /\ OwnBuffers
    /\ resA.local_shards[1].global_shape[2] > 1

\* Some axis of the tensor is not cut evenly: its global extent is no multiple
\* of the first local shard's extent, or a shard's offset is no multiple of
\* that shard's extent.
UnevenShards(t) ==
    \E j \in DOMAIN t.size :
        \/ t.size[j] % t.local_shards[1].shard_sizes[j] # 0
        \/ \E i \in DOMAIN t.local_shards :
              t.local_shards[i].shard_offsets[j] % t.local_shards[i].shard_sizes[j] # 0

\* C11 (as claimed): toDialectA with allow_shape_mismatch = FALSE on a tensor
\* that is not cut evenly fails with an error and builds no descriptor; the
\* quotient is truncated silently only under allow_shape_mismatch = TRUE.
C11_UnevenShardsRaise ==
    (resA.status # "none" /\ ~allow /\ UnevenShards(sh_ten)) =>
        /\ resA.status # "ok"
        /\ BuiltDescriptors(resA) = {}

\* C14 (as claimed): toDialectA returns one descriptor per local shard
\* record, in the same order, each with prepend_axis_num = Len(prepend
\* offsets); descriptor i carries, for real axis j at position
\* j + Len(prepend offsets), the fragmentation global_extent / shard_extent and
\* the rank offset shard_offset / shard_extent of shard i itself (as global
\* offset: that rank offset times the shard's extent).
C14_OneDescriptorPerShard ==
    (resA.status # "none" /\ SamePlacement(sh_ten.local_shards)) =>
        /\ resA.status = "ok"
        /\ Len(resA.local_shards) = Len(sh_ten.local_shards)
        /\ \A i \in DOMAIN sh_ten.local_shards :
              LET d == resA.local_shards[i]
                  m == sh_ten.local_shards[i]
                  n == Len(prepend)
              IN /\ d.kind = "ShardedTensor"
                 /\ d.data = m.tensor
                 /\ d.prepend_axis_num = n
                 /\ Len(d.global_offset) = n + Len(sh_ten.size)
                 /\ \A j \in DOMAIN sh_ten.size :
                       /\ d.axis_fragmentations[j + n] =
                              sh_ten.size[j] \div sh_ten.local_shards[1].shard_sizes[j]
                       /\ d.global_offset[j + n] =
                              (m.shard_offsets[j] \div m.shard_sizes[j]) * m.shard_sizes[j]

\* C15 (as claimed): toDialectA on a tensor whose local shard records do not
\* all have the same placement ends with the assertion failure of the
\* placement check, and no local shard record has been replaced.
C15_PlacementAssertion ==
    (resA.status # "none" /\ ~SamePlacement(sh_ten.local_shards)) =>
        /\ resA.status = "AssertionError"
        /\ BuiltDescriptors(resA) = {}
        /\ resA.local_shards = sh_ten.local_shards

\* C17 (as claimed): every list of real-axis triples that toDialectA hands to
\* the descriptor construction, for the first local shard and for the later
\* ones, has exactly one triple per tensor axis: its length is the number of
\* axes and no axis index occurs twice in it.
C17_OneTriplePerAxis ==
    resA.status # "none" =>
        \A c \in DOMAIN resA.handed :
            /\ Len(resA.handed[c]) = Len(sh_ten.size)
            /\ \A a, b \in DOMAIN resA.handed[c] :
                  a # b => resA.handed[c][a][1] # resA.handed[c][b][1]

\* Descriptor b is descriptor a without its first prepend_axis_num entries
\* of global_shape, global_offset and axis_fragmentations (the count a has),
\* with prepend_axis_num = 0 and buffer ten as data.
StrippedAndRebound(a, b, ten) ==
    /\ Len(a.global_shape) >= a.prepend_axis_num
    /\ b.global_shape = SubSeq(a.global_shape, a.prepend_axis_num + 1, Len(a.global_shape))
    /\ b.global_offset = SubSeq(a.global_offset, a.prepend_axis_num + 1, Len(a.global_offset))
    /\ b.axis_fragmentations =
           SubSeq(a.axis_fragmentations, a.prepend_axis_num + 1, Len(a.axis_fragmentations))
    /\ b.prepend_axis_num = 0
    /\ b.data = ten
    /\ Len(b.global_offset) = Len(b.global_shape)
    /\ Len(b.axis_fragmentations) = Len(b.global_shape)
    /\ b.key = a.key /\ b.local_shape = a.local_shape

\* C13: when toDialectB returns, every descriptor that was paired with a
\* buffer has lost exactly its first prepend_axis_num entries (the count it
\* had before the call) of global_shape, global_offset and
\* axis_fragmentations, has prepend_axis_num = 0 and the supplied buffer as
\* data, and its three geometry sequences have one length; a descriptor that
\* got no buffer is as it was.  The first pair is treated so even when the
\* validation that follows it fails.  A second toDialectB on the same
\* descriptors and buffers returns too and changes no field of them.
C13_StripPrependAxes ==
    /\ (resB.status \in {"ok", "CheckpointingException"} /\ Len(tensIn) >= 1) =>
          StrippedAndRebound(resA.local_shards[1], resB.sh_tens[1], tensIn[1])
    /\ resB.status = "ok" =>
          /\ Len(resB.sh_tens) = Len(resA.local_shards)
          /\ \A i \in DOMAIN resB.sh_tens :
                IF i <= Len(tensIn)
                THEN StrippedAndRebound(resA.local_shards[i], resB.sh_tens[i], tensIn[i])
                ELSE resB.sh_tens[i] = resA.local_shards[i]
    /\ resB2.status # "none" =>
          /\ resB2.status = "ok"
          /\ resB2.sh_tens = resB.sh_tens

\* C13 witness: two descriptors, the first with two prepend axes and the
\* second with one, were given freshly loaded buffers by toDialectB, and
\* toDialectB was applied to them once more.
C13_Witness ==
    /\ resB.status = "ok" /\ resB2.status = "ok"
    /\ Len(tensIn) >= 2 /\ Len(resA.local_shards) >= 2
    /\ tensIn[1] # resA.local_shards[1].data
    /\ resA.local_shards[1].prepend_axis_num = 2
    /\ resA.local_shards[2].prepend_axis_num = 1
    /\ Len(resB.sh_tens[2].global_shape) = 1

(***************************************************************************)
(* Scenario Strip: a list of Dialect-A descriptors, as a template leaf     *)
(* holds it, is handed with buffers to toDialectB (twice).                 *)
(***************************************************************************)
\* The i-th descriptor of the list, with p prepend axes: chunk i of MaxTens
\* chunks of extent 2, behind the prepend axes of PrependChoices.
StripDesc(i, p) ==
    FromRankOffsets(GeomKey, Buffer(<<2>>, 10 + i),
                    (IF p = 0 THEN <<>>
                     ELSE IF p = 1 THEN <<<<0, 2, 5>>>>
                     ELSE <<<<0, 0, 1>>, <<1, 1, 2>>>>) \o <<<<p, i - 1, MaxTens>>>>,
                    0, p, FALSE).desc

StripLists ==
    {[i \in DOMAIN ps |-> StripDesc(i, ps[i])] :
        ps \in {q \in SeqsUpTo(0..2, MaxTens) : Len(q) >= 1}}

InitStrip ==
    /\ pc = "toDialectB"
    /\ \E l \in StripLists : resA = [status |-> "ok", local_shards |-> l, handed |-> <<>>]
    /\ sh_ten = None /\ prepend = <<>> /\ allow = FALSE
    /\ tensIn = <<>> /\ resB = Idle /\ resB2 = Idle
    /\ checkpoint = None /\ template = None /\ resM = Idle
    /\ state_dict = None /\ prefix = EmptyStr /\ resS = Idle
    /\ ranks = <<>> /\ resR = <<>>

NextStrip == CallToDialectB \/ CallToDialectBAgain

SpecStrip == InitStrip /\ [][NextStrip]_vars

(***************************************************************************)
(* mergeLoaded: mcore_to_pyt_sharded_state_dict (utils.py 97-131).         *)
(***************************************************************************)
Dict(items) == [kind |-> "dict", items |-> items]

Item(k, v) == [k |-> k, v |-> v]

\* list(d): the keys in the order "for k in d" visits them.
Keys(d) == [i \in DOMAIN d.items |-> d.items[i].k]

\* k in d
HasKey(d, k) == \E i \in DOMAIN d.items : d.items[i].k = k

\* d[k], for a k in d
Get(d, k) == d.items[CHOOSE i \in DOMAIN d.items : d.items[i].k = k].v

\* d[k] = v, for a k in d: the key keeps its place.
Put(d, k, v) ==
    [d EXCEPT !.items = [i \in DOMAIN d.items |->
        IF d.items[i].k = k THEN Item(k, v) ELSE d.items[i]]]

Outcome(status, key, cp, tmpl) ==
    [status |-> status, key |-> key, checkpoint |-> cp, template |-> tmpl]

\* A variant of line 128 that would iterate over the template
\* (for k in sharded_state_dict).
TemplateKeys(cp, tmpl) == Keys(tmpl)

\* Line 128: the keys the top-level loop hands to _convert.
TopLevelKeys(cp, tmpl) == Keys(cp)

\* A variant of lines 125-126 that would pass over a key the checkpoint lacks
\* (checkpoint.get(k) guarded by "if k in checkpoint").
ConvertListSkipsMissing(cp, tmpl, k) ==
    IF ~HasKey(cp, k) THEN Outcome("ok", k, cp, tmpl)
    ELSE LET r == McoreToPytShardedTensor(Get(cp, k).tens, Get(tmpl, k).descs)
             t2 == Put(tmpl, k, [Get(tmpl, k) EXCEPT !.descs = r.sh_tens])
         IN IF r.status = "ok" THEN Outcome("ok", k, Put(cp, k, r.value), t2)
            ELSE Outcome(r.status, k, cp, t2)

\* Lines 125-126: a list of ShardedTensor.  checkpoint[k] raises KeyError
\* when k is missing; the descriptors are mutated in place either way.
ConvertList(cp, tmpl, k) ==
    IF ~HasKey(cp, k) THEN Outcome("KeyError", k, cp, tmpl)
    ELSE LET r == McoreToPytShardedTensor(Get(cp, k).tens, Get(tmpl, k).descs)
             t2 == Put(tmpl, k, [Get(tmpl, k) EXCEPT !.descs = r.sh_tens])
         IN IF r.status = "ok" THEN Outcome("ok", k, Put(cp, k, r.value), t2)
            ELSE Outcome(r.status, k, cp, t2)

\* A variant of lines 123-124 that would write the skip marker into the
\* checkpoint (checkpoint[k] = sharded_state_dict[k]).
ConvertObjectOverwrites(cp, tmpl, k) ==
    IF HasKey(cp, k) THEN Outcome("ok", k, Put(cp, k, Get(tmpl, k)), tmpl)
    ELSE Outcome("ok", k, cp, tmpl)

\* Lines 123-124: a ShardedObject: do nothing; checkpoint[k] is not read.
ConvertObject(cp, tmpl, k) == Outcome("ok", k, cp, tmpl)

RECURSIVE Convert(_, _, _)
RECURSIVE ConvertItems(_, _, _, _)
\* _convert(checkpoint, sharded_state_dict, k), lines 117-126.
Convert(cp, tmpl, k) ==
    IF ~HasKey(tmpl, k) THEN Outcome("AssertionError", k, cp, tmpl)
    ELSE IF Get(tmpl, k).kind = "dict" THEN ConvertItems(cp, tmpl, k, 1)
    ELSE IF Get(tmpl, k).kind = "ShardedObject" THEN ConvertObject(cp, tmpl, k)
    ELSE IF Get(tmpl, k).kind = "list" THEN ConvertList(cp, tmpl, k)
    ELSE Outcome("ok", k, cp, tmpl)

\* Lines 121-122 from the i-th key kk of sharded_state_dict[k] on; the
\* argument checkpoint[k] is evaluated for every kk (KeyError if k is missing).
ConvertItems(cp, tmpl, k, i) ==
    IF i > Len(Get(tmpl, k).items) THEN Outcome("ok", k, cp, tmpl)
    ELSE IF ~HasKey(cp, k) THEN Outcome("KeyError", k, cp, tmpl)
    ELSE LET r == Convert(Get(cp, k), Get(tmpl, k), Get(tmpl, k).items[i].k)
             cp2 == Put(cp, k, r.checkpoint)
             t2 == Put(tmpl, k, r.template)
         IN IF r.status # "ok" THEN Outcome(r.status, r.key, cp2, t2)
            ELSE ConvertItems(cp2, t2, k, i + 1)

\* Lines 128-129 from the i-th of the keys to visit on.
RECURSIVE MergeLoop(_, _, _, _)
MergeLoop(cp, tmpl, ks, i) ==
    IF i > Len(ks) THEN Outcome("ok", "", cp, tmpl)
    ELSE LET r == Convert(cp, tmpl, ks[i])
         IN IF r.status # "ok" THEN r
            ELSE MergeLoop(r.checkpoint, r.template, ks, i + 1)

\* mcore_to_pyt_sharded_state_dict(checkpoint, sharded_state_dict): on "ok"
\* the returned object is the checkpoint field (line 131: the same dict).
McoreToPytShardedStateDict(cp, tmpl) == MergeLoop(cp, tmpl, TopLevelKeys(cp, tmpl), 1)

(***************************************************************************)
(* Scenario Merge: a template and a loaded checkpoint are handed to        *)
(* mergeLoaded.  The checkpoint agrees with the template in kind wherever  *)
(* both have a value (it was loaded by means of the template); it may lack *)
(* keys of the template, and have a key the template lacks.                *)
(***************************************************************************)
\* The i-th descriptor of a template leaf: one prepended layer axis (layer 2
\* of 5), and the i-th of MaxTens chunks of extent 2 along the real axis.
MergeDesc(i) ==
    [kind |-> "ShardedTensor", key |-> <<"w">>, data |-> Buffer(<<2>>, 10 + i),
     local_shape |-> <<2>>, global_shape |-> <<5, 2 * MaxTens>>,
     global_offset |-> <<2, 2 * (i - 1)>>, axis_fragmentations |-> <<5, MaxTens>>,
     replica_id |-> 0, prepend_axis_num |-> 1, allow_shape_mismatch |-> FALSE]

SkipMarker == [kind |-> "ShardedObject"]

DescList(n) == [kind |-> "list", descs |-> [i \in 1..n |-> MergeDesc(i)]]

Blob(id) == [kind |-> "BytesIO", id |-> id]

TemplateLeaves == {SkipMarker} \cup {DescList(n) : n \in 1..MaxTens}

\* Nested template mappings: {}, {x: leaf}, {x: leaf, y: leaf}, {x: {y: leaf}}, {x: {}}.
TemplateSubDicts ==
    {Dict(<<>>)} \cup
    {Dict(<<Item("x", l)>>) : l \in TemplateLeaves} \cup
    {Dict(<<Item("x", l), Item("y", m)>>) : l \in TemplateLeaves, m \in TemplateLeaves} \cup
    {Dict(<<Item("x", Dict(<<Item("y", l)>>))>>) : l \in TemplateLeaves} \cup
    {Dict(<<Item("x", Dict(<<>>))>>)}

Templates ==
    {Dict(<<>>)} \cup
    {Dict(<<Item("a", v)>>) : v \in TemplateLeaves \cup TemplateSubDicts} \cup
    {Dict(<<Item("a", v), Item("b", w)>>) :
        v \in TemplateLeaves \cup TemplateSubDicts,
        w \in TemplateLeaves \cup {Dict(<<Item("x", l)>>) : l \in TemplateLeaves}}

Perms(s) ==
    {[i \in DOMAIN s |-> s[f[i]]] :
        f \in {g \in [DOMAIN s -> DOMAIN s] : \A i, j \in DOMAIN s : i # j => g[i] # g[j]}}

RECURSIVE LoadedValues(_)
RECURSIVE LoadedItems(_)
\* What a load leaves at a key whose template value is v.
LoadedValues(v) ==
    IF v.kind = "ShardedObject" THEN {Blob(7)}
    ELSE IF v.kind = "list"
    THEN {[kind |-> "tensors", tens |-> LoadedBuffers(v.descs, m, mode)] :
              m \in 0..MaxTens, mode \in {"loaded", "bad"}}
    ELSE {Dict(items) : items \in LoadedItems(v.items)}

\* The item lists of a loaded mapping: every template key is there or missing.
LoadedItems(titems) ==
    IF titems = <<>> THEN {<<>>}
    ELSE LET rest == LoadedItems(Tail(titems))
         IN rest \cup {<<Item(Head(titems).k, c)>> \o r :
                          c \in LoadedValues(Head(titems).v), r \in rest}

Checkpoints(tmpl) ==
    UNION {Perms(items \o extra) :
              items \in LoadedItems(tmpl.items),
              extra \in {<<>>, <<Item("z", Blob(9))>>}}

InitMerge ==
    /\ pc = "mergeLoaded"
    /\ template \in Templates
    /\ \E items \in Checkpoints(template) : checkpoint = Dict(items)
    /\ resM = Idle
    /\ sh_ten = None /\ prepend = <<>> /\ allow = FALSE
    /\ resA = Idle /\ tensIn = <<>> /\ resB = Idle /\ resB2 = Idle
    /\ state_dict = None /\ prefix = EmptyStr /\ resS = Idle
    /\ ranks = <<>> /\ resR = <<>>

CallMergeLoaded ==
    /\ pc = "mergeLoaded"
    /\ resM' = McoreToPytShardedStateDict(checkpoint, template)
    /\ pc' = "done"
    /\ UNCHANGED <<sh_ten, prepend, allow, resA, tensIn, resB, resB2, checkpoint,
                   template, state_dict, prefix, resS, ranks, resR>>

NextMerge == CallMergeLoaded

SpecMerge == InitMerge /\ [][NextMerge]_vars

(***************************************************************************)
(* Claims on the Merge scenario.                                           *)
(***************************************************************************)
Called == resM.status # "none"

\* The keys of the template, at any depth, that are absent from the level of
\* the checkpoint that corresponds to them (a level that is itself there).
RECURSIVE MissingKeys(_, _)
MissingKeys(cp, tmpl) ==
    {k \in Range(Keys(tmpl)) : ~HasKey(cp, k)} \cup
    UNION {MissingKeys(Get(cp, k), Get(tmpl, k)) :
              k \in {x \in Range(Keys(tmpl)) : HasKey(cp, x) /\ Get(tmpl, x).kind = "dict"}}

\* Those of them the code reads: below the top level, with a descriptor list
\* or a non-empty mapping as template value.
RECURSIVE ReadMissingKeys(_, _, _)
ReadMissingKeys(cp, tmpl, depth) ==
    {k \in Range(Keys(tmpl)) :
        /\ depth > 1 /\ ~HasKey(cp, k)
        /\ \/ Get(tmpl, k).kind = "list"
           \/ Get(tmpl, k).kind = "dict" /\ Get(tmpl, k).items # <<>>} \cup
    UNION {ReadMissingKeys(Get(cp, k), Get(tmpl, k), depth + 1) :
              k \in {x \in Range(Keys(tmpl)) : HasKey(cp, x) /\ Get(tmpl, x).kind = "dict"}}

\* No buffer of the checkpoint has another extent than its descriptor.
RECURSIVE BuffersFit(_, _)
BuffersFit(cp, tmpl) ==
    \A k \in Range(Keys(tmpl)) : HasKey(cp, k) =>
        IF Get(tmpl, k).kind = "dict" THEN BuffersFit(Get(cp, k), Get(tmpl, k))
        ELSE IF Get(tmpl, k).kind = "list"
        THEN \A i \in 1..ZipLength(Get(cp, k).tens, Get(tmpl, k).descs) :
                 Get(cp, k).tens[i].shape = Get(tmpl, k).descs[i].local_shape
        ELSE TRUE

ExpectedAggregate(tens, descs) ==
    LET bound(i) == i <= Len(tens)
    IN [kind |-> "TorchShardedTensor",
        size |-> IF bound(1) THEN Drop(descs[1].global_shape, descs[1].prepend_axis_num)
                 ELSE descs[1].global_shape,
        local_shards |-> [i \in DOMAIN descs |->
            [kind |-> "Shard",
             tensor |-> IF bound(i) THEN tens[i] ELSE descs[i].data,
             shard_offsets |-> IF bound(i)
                               THEN Drop(descs[i].global_offset, descs[i].prepend_axis_num)
                               ELSE descs[i].global_offset,
             shard_sizes |-> IF bound(i) THEN tens[i].shape ELSE descs[i].data.shape,
             placement |-> "rank"]]]

\* A descriptor list lies at or below template value tv.
RECURSIVE HasListLeaf(_)
HasListLeaf(tv) ==
    \/ tv.kind = "list"
    \/ tv.kind = "dict" /\ \E i \in DOMAIN tv.items : HasListLeaf(tv.items[i].v)

\* After the call, level cp1 of the checkpoint (cp0 before it) has the same
\* keys, every leaf whose template value is a descriptor list is the
\* aggregate, and every other leaf is what it was.
RECURSIVE LevelMerged(_, _, _)
LevelMerged(cp0, cp1, tmpl) ==
    /\ Keys(cp1) = Keys(cp0)
    /\ \A k \in Range(Keys(cp0)) :
          IF ~HasKey(tmpl, k) THEN Get(cp1, k) = Get(cp0, k)
          ELSE IF Get(tmpl, k).kind = "list"
          THEN Get(cp1, k) = ExpectedAggregate(Get(cp0, k).tens, Get(tmpl, k).descs)
          ELSE IF Get(tmpl, k).kind = "dict"
          THEN LevelMerged(Get(cp0, k), Get(cp1, k), Get(tmpl, k))
          ELSE Get(cp1, k) = Get(cp0, k)

\* Every descriptor list reachable from template level tmpl has its leaf in
\* the checkpoint level cp.
RECURSIVE ListLeavesPresent(_, _)
ListLeavesPresent(cp, tmpl) ==
    \A k \in Range(Keys(tmpl)) :
        HasListLeaf(Get(tmpl, k)) =>
            /\ HasKey(cp, k)
            /\ Get(tmpl, k).kind = "dict" => ListLeavesPresent(Get(cp, k), Get(tmpl, k))

\* The same, below the top-level keys the checkpoint has.
ListLeavesPresentBelow(cp, tmpl) ==
    \A k \in Range(Keys(tmpl)) :
        (HasKey(cp, k) /\ Get(tmpl, k).kind = "dict") =>
            ListLeavesPresent(Get(cp, k), Get(tmpl, k))

ForeignKeys == {k \in Range(Keys(checkpoint)) : ~HasKey(template, k)}

\* The place of key k among the top-level keys of the checkpoint.
PlaceOf(k) == CHOOSE i \in DOMAIN checkpoint.items : checkpoint.items[i].k = k

LayerPrefix == <<"module", "decoder", "layers", "">>

\* ".word_embeddings.weight" (line 222)
VocabSuffix == <<"", "word_embeddings", "weight">>

\* int(segment), lines 216 and 225: the decimal numerals up to MaxLayer, a
\* numeral with a leading zero, a negative numeral; anything else (a word,
\* the empty segment) raises ValueError.
ParseInt(seg) ==
    IF \E n \in 0..MaxLayer : seg = ToString(n)
    THEN [ok |-> TRUE, val |-> CHOOSE n \in 0..MaxLayer : seg = ToString(n)]
    ELSE IF seg = "01" THEN [ok |-> TRUE, val |-> 1]
    ELSE IF seg = "-1" THEN [ok |-> TRUE, val |-> 0 - 1]
    ELSE [ok |-> FALSE, val |-> 0]

\* k.startswith("module.decoder.layers.")
IsLayerKey(k) == StartsWithDotted(k, LayerPrefix)

\* k.split('.')[3]
LayerSegment(k) == k[4]

\* Lines 224-226: the key without its 4th segment.
StrippedKey(k) == SubSeq(k, 1, 3) \o SubSeq(k, 5, Len(k))

\* A variant of line 222 without the leading dot of the suffix
\* (k.endswith("word_embeddings.weight")).
AllowShapeMismatchNoDot(k) ==
    Len(k) >= 2 /\ k[Len(k) - 1] = "word_embeddings" /\ k[Len(k)] = "weight"

\* Line 222: the flag is computed from the top-level key k as it stands.
AllowShapeMismatch(k) == EndsWithDotted(k, VocabSuffix)

\* A variant of lines 220-227 that would keep the layer index in sh_key.
ShKeyUnstripped(k) == k

\* Lines 220-227: sh_key.
ShKey(k) == IF IsLayerKey(k) THEN StrippedKey(k) ELSE k

\* A variant of lines 220-227 that would take the largest layer index, not
\* the layer count, as fragmentation of the layer axis.
PrependOffsetsMaxIndex(k, num_layers) ==
    IF IsLayerKey(k) THEN <<<<0, ParseInt(LayerSegment(k)).val, num_layers - 1>>>> ELSE <<>>

\* Lines 220-227: prepend_offsets.
PrependOffsets(k, num_layers) ==
    IF IsLayerKey(k) THEN <<<<0, ParseInt(LayerSegment(k)).val, num_layers>>>> ELSE <<>>

\* A variant of lines 213-216 without max(): the last layer key scanned wins.
RECURSIVE ResolveLayersLastWins(_, _, _)
ResolveLayersLastWins(ks, i, num_layers) ==
    IF i > Len(ks) THEN [status |-> "ok", num_layers |-> num_layers]
    ELSE IF ~IsLayerKey(ks[i]) THEN ResolveLayersLastWins(ks, i + 1, num_layers)
    ELSE IF ~ParseInt(LayerSegment(ks[i])).ok
    THEN [status |-> "ValueError", num_layers |-> num_layers]
    ELSE ResolveLayersLastWins(ks, i + 1, ParseInt(LayerSegment(ks[i])).val + 1)

\* Lines 213-216 from the i-th key on: the Layer-Index Resolver.
RECURSIVE ResolveLayers(_, _, _)
ResolveLayers(ks, i, num_layers) ==
    IF i > Len(ks) THEN [status |-> "ok", num_layers |-> num_layers]
    ELSE IF ~IsLayerKey(ks[i]) THEN ResolveLayers(ks, i + 1, num_layers)
    ELSE IF ~ParseInt(LayerSegment(ks[i])).ok
    THEN [status |-> "ValueError", num_layers |-> num_layers]
    ELSE ResolveLayers(ks, i + 1,
                       Maximum(num_layers, ParseInt(LayerSegment(ks[i])).val + 1))

NumLayers(ks) == ResolveLayers(ks, 1, 0)

\* A variant of line 217 without the assertion.
LayersFoundUnchecked(num_layers) == TRUE

\* Line 217: assert num_layers != 0
LayersFound(num_layers) == num_layers # 0

\* megatron.core.transformer.utils._get_extra_state_offsets: the offsets sorted
\* by axis (at most one here), else shape (1,) at offset (0,).
GetExtraStateOffsets(sharded_offsets) ==
    IF sharded_offsets = <<>> THEN [status |-> "ok", shape |-> <<1>>, offset |-> <<0>>]
    ELSE IF [i \in DOMAIN sharded_offsets |-> sharded_offsets[i][1]] #
            [i \in DOMAIN sharded_offsets |-> i - 1]
    THEN [status |-> "AssertionError", shape |-> <<>>, offset |-> <<>>]
    ELSE [status |-> "ok",
          shape |-> [i \in DOMAIN sharded_offsets |-> sharded_offsets[i][3]],
          offset |-> [i \in DOMAIN sharded_offsets |-> sharded_offsets[i][2]]]

\* A variant of lines 180-192 that would check the payload against a shape.
TorchToMcoreShardedObjectChecked(key, obj, sharded_offsets, pfx) ==
    LET e == GetExtraStateOffsets(sharded_offsets)
    IN IF e.status # "ok" THEN [status |-> e.status, value |-> None]
       ELSE IF obj.id # 5 THEN [status |-> "CheckpointingException", value |-> None]
       ELSE [status |-> "ok",
             value |-> [kind |-> "ShardedObject", key |-> StrCat(pfx, key), data |-> obj,
                        global_shape |-> e.shape, global_offset |-> e.offset,
                        replica_id |-> <<0, 0, "data_parallel_rank">>]]

\* _torch_to_mcore_sharded_object, lines 180-192: no check of the payload.
TorchToMcoreShardedObject(key, obj, sharded_offsets, pfx) ==
    LET e == GetExtraStateOffsets(sharded_offsets)
    IN IF e.status # "ok" THEN [status |-> e.status, value |-> None]
       ELSE [status |-> "ok",
             value |-> [kind |-> "ShardedObject", key |-> StrCat(pfx, key), data |-> obj,
                        global_shape |-> e.shape, global_offset |-> e.offset,
                        replica_id |-> <<0, 0, "data_parallel_rank">>]]

SplitOutcome(status, sd, calls) == [status |-> status, state_dict |-> sd, calls |-> calls]

\* A variant of line 203 that would put the child key in front of the prefix.
ChildPrefixInFront(pfx, kk) == StrCat(WithDot(kk), pfx)

\* Line 203: the prefix handed down for child key kk.
ChildPrefix(pfx, kk) == StrCat(pfx, WithDot(kk))

RECURSIVE SplitConvert(_, _, _, _, _, _, _, _)
RECURSIVE SplitConvertItems(_, _, _, _, _, _, _)
\* _convert(state_dict, k, sh_key, v, prepend_offsets, prefix,
\* allow_shape_mismatch), lines 194-211; calls is the log of the translator
\* calls made so far.
SplitConvert(sd, k, sh_key, v, prepend_offsets, pfx, asm, calls) ==
    IF v.kind = "dict"
    THEN LET r == SplitConvertItems(v, 1, sh_key, prepend_offsets, pfx, asm, calls)
         IN SplitOutcome(r.status, Put(sd, k, r.state_dict), r.calls)
    ELSE IF v.kind = "TorchShardedTensor"
    THEN LET r == TorchToMcoreShardedTensor(sh_key, v, prepend_offsets, pfx, asm)
             c == Append(calls, [fn |-> "toDialectA", key |-> sh_key, prefix |-> pfx,
                                 prepend_offsets |-> prepend_offsets,
                                 allow_shape_mismatch |-> asm, leaf |-> v])
         IN IF r.status # "ok" THEN SplitOutcome(r.status, sd, c)
            ELSE SplitOutcome("ok", Put(sd, k, [kind |-> "list", descs |-> r.local_shards]), c)
    ELSE IF v.kind = "BytesIO"
    THEN LET r == TorchToMcoreShardedObject(sh_key, v, prepend_offsets, pfx)
             c == Append(calls, [fn |-> "toDialectAObject", key |-> sh_key, prefix |-> pfx,
                                 prepend_offsets |-> prepend_offsets, leaf |-> v])
         IN IF r.status # "ok" THEN SplitOutcome(r.status, sd, c)
            ELSE SplitOutcome("ok", Put(sd, k, r.value), c)
    ELSE SplitOutcome("ok", sd, calls)

\* Lines 196-205 from the i-th item (kk, vv) of mapping v on.
SplitConvertItems(v, i, sh_key, prepend_offsets, pfx, asm, calls) ==
    IF i > Len(v.items) THEN SplitOutcome("ok", v, calls)
    ELSE LET r == SplitConvert(v, v.items[i].k, sh_key, v.items[i].v, prepend_offsets,
                               ChildPrefix(pfx, v.items[i].k), asm, calls)
         IN IF r.status # "ok" THEN r
            ELSE SplitConvertItems(r.state_dict, i + 1, sh_key, prepend_offsets, pfx,
                                   asm, r.calls)

\* Lines 219-229 from the i-th item on.
RECURSIVE SplitLoop(_, _, _, _, _)
SplitLoop(sd, i, num_layers, pfx, calls) ==
    IF i > Len(sd.items) THEN SplitOutcome("ok", sd, calls)
    ELSE LET k == sd.items[i].k
             r == SplitConvert(sd, k, ShKey(k), sd.items[i].v,
                               PrependOffsets(k, num_layers), pfx,
                               AllowShapeMismatch(k), calls)
         IN IF r.status # "ok" THEN r
            ELSE SplitLoop(r.state_dict, i + 1, num_layers, pfx, r.calls)

\* pyt_to_mcore_state_dict(state_dict, prefix): [status, state_dict, calls, num_layers].
PytToMcoreStateDict(sd, pfx) ==
    LET n == NumLayers(Keys(sd))
        out(r) == [status |-> r.status, state_dict |-> r.state_dict, calls |-> r.calls,
                   num_layers |-> n.num_layers]
    IN IF n.status # "ok" THEN out(SplitOutcome(n.status, sd, <<>>))
       ELSE IF ~LayersFound(n.num_layers)
       THEN out(SplitOutcome("AssertionError: num_layers != 0", sd, <<>>))
       ELSE out(SplitLoop(sd, 1, n.num_layers, pfx, <<>>))

(***************************************************************************)
(* Scenario Split: a state dict and a prefix are handed to splitForSave.   *)
(***************************************************************************)
LayerKey(seg, rest) == <<"module", "decoder", "layers", seg>> \o rest

\* The top-level keys: layer-stack keys with a numeral, a numeral with a
\* leading zero, a negative numeral or a word as 4th segment, and
\* keys that do not follow the layer-stack convention.
SplitKeys ==
    {LayerKey(ToString(n), <<"w">>) : n \in 0..MaxLayer} \cup
    {LayerKey(seg, <<"w">>) : seg \in {"01", "-1", "x"}} \cup
    {LayerKey("0", <<"word_embeddings", "weight">>), LayerKey("0", <<>>)} \cup
    {<<"module", "decoder", "layers">>,
     <<"embedding", "word_embeddings", "weight">>,
     <<"word_embeddings", "weight">>,
     <<"p", "a">>}

\* A Dialect-B tensor leaf: the second half of a vector of 4, as one shard.
TensorLeaf ==
    [kind |-> "TorchShardedTensor", size |-> <<4>>,
     local_shards |-> <<ShardRecord([offsets |-> <<2>>, sizes |-> <<2>>], 1, "rank:0/cuda:0")>>]

SplitValues ==
    {TensorLeaf, Blob(5),
     Dict(<<Item(<<"p">>, TensorLeaf)>>),
     Dict(<<Item(<<"p">>, Dict(<<Item(<<"q">>, TensorLeaf), Item(<<"r">>, Blob(6))>>))>>)}

InitSplit ==
    /\ pc = "splitForSave"
    /\ \E ks \in InjSeqsUpTo(SplitKeys, MaxKeys) :
          \E vs \in [DOMAIN ks -> SplitValues] :
              state_dict = Dict([i \in DOMAIN ks |-> Item(ks[i], vs[i])])
    /\ prefix \in {EmptyStr, <<"model", "">>}
    /\ resS = Idle
    /\ sh_ten = None /\ prepend = <<>> /\ allow = FALSE
    /\ resA = Idle /\ tensIn = <<>> /\ resB = Idle /\ resB2 = Idle
    /\ checkpoint = None /\ template = None /\ resM = Idle
    /\ ranks = <<>> /\ resR = <<>>

CallSplitForSave ==
    /\ pc = "splitForSave"
    /\ resS' = PytToMcoreStateDict(state_dict, prefix)
    /\ pc' = "done"
    /\ UNCHANGED <<sh_ten, prepend, allow, resA, tensIn, resB, resB2, checkpoint,
                   template, resM, state_dict, prefix, ranks, resR>>

NextSplit == CallSplitForSave

SpecSplit == InitSplit /\ [][NextSplit]_vars

(***************************************************************************)
(* Claims on the Split scenario.                                           *)
(***************************************************************************)
SplitCalled == resS.status # "none"

\* The call got past the resolver and the layer assertion.
SplitWalked == SplitCalled /\ resS.status \notin {"ValueError", "AssertionError: num_layers != 0"}

\* The number of Dialect-B tensor leaves at or below value v.
RECURSIVE TensorLeaves(_)
RECURSIVE TensorLeavesIn(_, _)
TensorLeaves(v) ==
    IF v.kind = "TorchShardedTensor" THEN 1
    ELSE IF v.kind = "dict" THEN TensorLeavesIn(v.items, 1)
    ELSE 0

TensorLeavesIn(items, i) ==
    IF i > Len(items) THEN 0 ELSE TensorLeaves(items[i].v) + TensorLeavesIn(items, i + 1)

\* The top-level key under which the n-th tensor leaf of the dict lies, the
\* leaves counted in the order of the walk.
RECURSIVE TopKeyOfLeaf(_, _, _)
TopKeyOfLeaf(items, i, n) ==
    IF n <= TensorLeaves(items[i].v) THEN items[i].k
    ELSE TopKeyOfLeaf(items, i + 1, n - TensorLeaves(items[i].v))

\* The calls of toDialectA, in the order they were made.
TensorCalls == SelectSeq(resS.calls, LAMBDA c : c.fn = "toDialectA")

\* The layer indices written in the layer-stack keys of the dict.
LayerIndices == {ParseInt(k[4]).val : k \in {x \in Range(Keys(state_dict)) : IsLayerKey(x)}}

\* C3: every tensor leaf under a top-level key k is translated, in the order
\* of the walk, with key k and no prepend offset when k does not start with
\* "module.decoder.layers.", and otherwise with k without its 4th segment and
\* the one prepend offset (0, N, numLayers), N the number that segment writes
\* and numLayers the resolved layer count.
C3_LayerKeyTranslation ==
    SplitWalked =>
        /\ Len(TensorCalls) <= TensorLeavesIn(state_dict.items, 1)
        /\ resS.status = "ok" => Len(TensorCalls) = TensorLeavesIn(state_dict.items, 1)
        /\ \A n \in DOMAIN TensorCalls :
              LET k == TopKeyOfLeaf(state_dict.items, 1, n)
                  c == TensorCalls[n]
              IN IF Len(k) >= 4 /\ k[1] = "module" /\ k[2] = "decoder" /\ k[3] = "layers"
                 THEN /\ c.key = <<"module", "decoder", "layers">> \o Drop(k, 4)
                      /\ c.prepend_offsets = <<<<0, ParseInt(k[4]).val, resS.num_layers>>>>
                 ELSE /\ c.key = k
                      /\ c.prepend_offsets = <<>>

\* C3 witness: a normal return that translated a tensor leaf under layer 1
\* and a tensor leaf under a key outside the layer stack.
C3_Witness ==
    /\ resS.status = "ok"
    /\ \E c \in Range(TensorCalls) : c.prepend_offsets = <<<<0, 1, 2>>>>
    /\ \E c \in Range(TensorCalls) : c.prepend_offsets = <<>> /\ c.key = <<"p", "a">>

\* C4 (as claimed): the layer assertion aborts the call if and only if a key
\* follows the layer-stack convention and no layer was found; a state dict
\* without any such key is not aborted by it, and is translated with no
\* prepend offsets.
C4_AbortOnlyIfConventionMatches ==
    SplitCalled =>
        /\ resS.status = "AssertionError: num_layers != 0" =>
              \E k \in Range(Keys(state_dict)) : IsLayerKey(k)
        /\ (\A k \in Range(Keys(state_dict)) : ~IsLayerKey(k)) =>
              /\ resS.status # "AssertionError: num_layers != 0"
              /\ \A c \in Range(resS.calls) : c.prepend_offsets = <<>>

\* C4 (amended): the layer assertion aborts the call exactly when the resolved
\* layer count is 0, that is when no key follows the layer-stack convention
\* with an index >= 0 (the 4th segments being numerals); so a state dict
\* without any layer-stack key is aborted too.  The abort happens before any
\* leaf is translated and leaves the state dict as it was.
C4_AbortIffNoLayers ==
    SplitCalled =>
        /\ resS.status = "AssertionError: num_layers != 0" <=>
              /\ \A k \in Range(Keys(state_dict)) : IsLayerKey(k) => ParseInt(k[4]).ok
              /\ \A n \in LayerIndices : n < 0
        /\ (\A k \in Range(Keys(state_dict)) : ~IsLayerKey(k)) =>
              resS.status = "AssertionError: num_layers != 0"
        /\ resS.status = "AssertionError: num_layers != 0" =>
              resS.calls = <<>> /\ resS.state_dict = state_dict

\* C4 witness: a state dict with a tensor leaf and no layer-stack key was
\* aborted by the layer assertion.
C4_Witness ==
    /\ resS.status = "AssertionError: num_layers != 0"
    /\ state_dict.items # <<>>
    /\ \A k \in Range(Keys(state_dict)) : ~IsLayerKey(k)
    /\ \E i \in DOMAIN state_dict.items : state_dict.items[i].v = TensorLeaf

\* C5: the resolver returns max(N) + 1 over the keys
\* "module.decoder.layers.N.<rest>" with N >= 0 (0 when there is none), the
\* same for every order in which the keys can be scanned, and a call that
\* ends in the resolver or at the layer assertion leaves the dict unchanged.
C5_ResolverMaxPlusOne ==
    (SplitCalled /\ resS.status # "ValueError") =>
        /\ \A n \in LayerIndices : resS.num_layers >= n + 1
        /\ \/ resS.num_layers = 0
           \/ \E n \in LayerIndices : resS.num_layers = n + 1
        /\ \A p \in Perms(Keys(state_dict)) : NumLayers(p).num_layers = resS.num_layers
        /\ ~SplitWalked => resS.state_dict = state_dict

\* C5 witness: two layer keys, the larger index scanned first, resolved to
\* MaxLayer + 1.
C5_Witness ==
    /\ resS.status = "ok" /\ Len(state_dict.items) >= 2
    /\ IsLayerKey(state_dict.items[1].k) /\ IsLayerKey(state_dict.items[2].k)
    /\ ParseInt(state_dict.items[1].k[4]).val = MaxLayer
    /\ ParseInt(state_dict.items[2].k[4]).val = 0
    /\ resS.num_layers = MaxLayer + 1

RECURSIVE LeafPaths(_, _)
RECURSIVE LeafPathsIn(_, _, _)
LeafPaths(v, path) ==
    IF v.kind \in {"TorchShardedTensor", "BytesIO"} THEN <<path>>
    ELSE IF v.kind = "dict" THEN LeafPathsIn(v.items, 1, path)
    ELSE <<>>

LeafPathsIn(items, i, path) ==
    IF i > Len(items) THEN <<>>
    ELSE LeafPaths(items[i].v, Append(path, items[i].k)) \o LeafPathsIn(items, i + 1, path)

\* The descriptor keys found at the leaves at or below value v of the
\* translated dict, in the order of the walk.
RECURSIVE BuiltKeys(_)
RECURSIVE BuiltKeysIn(_, _)
BuiltKeys(v) ==
    IF v.kind = "list" THEN <<v.descs[1].key>>
    ELSE IF v.kind = "ShardedObject" THEN <<v.key>>
    ELSE IF v.kind = "dict" THEN BuiltKeysIn(v.items, 1)
    ELSE <<>>

BuiltKeysIn(items, i) ==
    IF i > Len(items) THEN <<>> ELSE BuiltKeys(items[i].v) \o BuiltKeysIn(items, i + 1)

\* Top-level key k without its layer index, if it is a layer-stack key.
WithoutLayerIndex(k) ==
    IF Len(k) >= 4 /\ k[1] = "module" /\ k[2] = "decoder" /\ k[3] = "layers"
    THEN <<"module", "decoder", "layers">> \o Drop(k, 4)
    ELSE k

\* String p followed by every key of ks, each with a dot behind it.
RECURSIVE FollowedBy(_, _)
FollowedBy(p, ks) ==
    IF ks = <<>> THEN p ELSE FollowedBy(StrCat(p, Append(Head(ks), "")), Tail(ks))

\* The keys of a path joined by dots; the top-level key without layer index.
RECURSIVE DotJoined(_)
DotJoined(path) == IF path = <<>> THEN <<>> ELSE Head(path) \o DotJoined(Tail(path))

\* C16 (as claimed): the descriptor key of every leaf is the caller's prefix,
\* then the dot-joined path of the mapping keys from the top-level key down,
\* the leaf's own key last.
C16_KeyIsPrefixThenPath ==
    resS.status = "ok" =>
        LET paths == LeafPathsIn(state_dict.items, 1, <<>>)
        IN BuiltKeysIn(resS.state_dict.items, 1) =
              [n \in DOMAIN paths |->
                  StrCat(prefix, DotJoined(<<WithoutLayerIndex(Head(paths[n]))>>
                                           \o Tail(paths[n])))]

\* C16 (amended): on a nested mapping the walk recurses with the child key
\* and a dot appended to the current prefix, and the key argument stays the
\* top-level key (without its layer index); the descriptor key of every leaf
\* is the caller's prefix, then the mapping keys below the top-level key in
\* top-down order down to the leaf's own key, each followed by a dot, then the
\* top-level key.
C16_KeyIsPrefixThenChildrenThenTop ==
    resS.status = "ok" =>
        LET paths == LeafPathsIn(state_dict.items, 1, <<>>)
        IN BuiltKeysIn(resS.state_dict.items, 1) =
              [n \in DOMAIN paths |->
                  StrCat(FollowedBy(prefix, Tail(paths[n])),
                         WithoutLayerIndex(Head(paths[n])))]

\* C16 witness: under prefix "model." a tensor leaf two mappings below a
\* layer-stack key got the key "model.p.q.module.decoder.layers.w".
C16_Witness ==
    /\ resS.status = "ok" /\ prefix = <<"model", "">>
    /\ \E n \in DOMAIN state_dict.items :
          /\ state_dict.items[n].k = LayerKey("1", <<"w">>)
          /\ BuiltKeys(resS.state_dict.items[n].v) =
                 <<<<"model", "p", "q", "module", "decoder", "layers", "w">>,
                   <<"model", "p", "r", "module", "decoder", "layers", "w">>>>

\* C18 (as claimed): after splitForSave no two distinct tensor or opaque
\* leaves of the state dict have the same pair (descriptor key, prepend
\* offsets).
C18_UniqueKeys ==
    resS.status = "ok" =>
        \A n, m \in DOMAIN resS.calls :
            n # m =>
                <<StrCat(resS.calls[n].prefix, resS.calls[n].key),
                  resS.calls[n].prepend_offsets>> #
                <<StrCat(resS.calls[m].prefix, resS.calls[m].key),
                  resS.calls[m].prepend_offsets>>

\* C19 (as claimed): whenever splitForSave returns normally, the prepend
\* offset (0, layerIndex, numLayers) of every leaf under a layer-stack key has
\* 0 <= layerIndex < numLayers and numLayers >= 1.
C19_LayerIndexInRange ==
    resS.status = "ok" =>
        \A c \in Range(resS.calls) :
            c.prepend_offsets # <<>> =>
                /\ Len(c.prepend_offsets) = 1
                /\ c.prepend_offsets[1][1] = 0
                /\ 0 <= c.prepend_offsets[1][2]
                /\ c.prepend_offsets[1][2] < c.prepend_offsets[1][3]
                /\ c.prepend_offsets[1][3] >= 1

\* C19 (amended): for every leaf under a layer-stack key that splitForSave
\* gets to translate, returning normally or not, the prepend offset is the one
\* triple (0, layerIndex, numLayers) with layerIndex < numLayers and
\* numLayers >= 1, numLayers the resolved count; 0 <= layerIndex holds when the
\* 4th segment of the key is an unsigned numeral, while for a negative numeral
\* (int() accepts "-1") layerIndex is negative.
C19_LayerIndexBelowCount ==
    SplitWalked =>
        LET paths == LeafPathsIn(state_dict.items, 1, <<>>)
        IN \A n \in DOMAIN resS.calls :
              LET c == resS.calls[n]
                  k == Head(paths[n])
              IN IF Len(k) >= 4 /\ k[1] = "module" /\ k[2] = "decoder" /\ k[3] = "layers"
                 THEN /\ Len(c.prepend_offsets) = 1
                      /\ c.prepend_offsets[1][1] = 0
                      /\ c.prepend_offsets[1][2] < c.prepend_offsets[1][3]
                      /\ c.prepend_offsets[1][3] = resS.num_layers
                      /\ resS.num_layers >= 1
                      /\ (k[4] # "-1") <=> (0 <= c.prepend_offsets[1][2])
                 ELSE c.prepend_offsets = <<>>

\* C19 witness: a normal return that wrapped an opaque leaf under the key of
\* layer -1 and translated a leaf under the key of layer MaxLayer.
C19_Witness ==
    /\ resS.status = "ok"
    /\ \E c \in Range(resS.calls) :
          c.fn = "toDialectAObject" /\ c.prepend_offsets = <<<<0, 0 - 1, MaxLayer + 1>>>>
    /\ \E c \in Range(resS.calls) : c.prepend_offsets = <<<<0, MaxLayer, MaxLayer + 1>>>>

(***************************************************************************)
(* Scenario Opaque: a state dict with opaque leaves is handed to           *)
(* splitForSave; the dict it leaves is the template of a later load, and   *)
(* template and loaded checkpoint are handed to mergeLoaded.               *)
(***************************************************************************)
OpaqueKeys == {LayerKey(ToString(n), <<"w">>) : n \in 0..1} \cup {<<"p", "a">>}

InitOpaque ==
    /\ pc = "save"
    /\ \E ks \in InjSeqsUpTo(OpaqueKeys, MaxKeys) :
          \E vs \in [DOMAIN ks -> SplitValues] :
              state_dict = Dict([i \in DOMAIN ks |-> Item(ks[i], vs[i])])
    /\ prefix = <<"model", "">>
    /\ resS = Idle
    /\ sh_ten = None /\ prepend = <<>> /\ allow = FALSE
    /\ resA = Idle /\ tensIn = <<>> /\ resB = Idle /\ resB2 = Idle
    /\ checkpoint = None /\ template = None /\ resM = Idle
    /\ ranks = <<>> /\ resR = <<>>

SaveOpaque ==
    /\ pc = "save"
    /\ resS' = PytToMcoreStateDict(state_dict, prefix)
    /\ pc' = IF resS'.status = "ok" THEN "load" ELSE "done"
    /\ UNCHANGED <<sh_ten, prepend, allow, resA, tensIn, resB, resB2, checkpoint,
                   template, resM, state_dict, prefix, ranks, resR>>

\* The load leaves, at every key of the template or at some of them, a blob
\* (of its own size) for a ShardedObject and buffers for a descriptor list.
LoadOpaque ==
    /\ pc = "load"
    /\ template' = resS.state_dict
    /\ \E items \in LoadedItems(resS.state_dict.items) : checkpoint' = Dict(items)
    /\ resM' = McoreToPytShardedStateDict(checkpoint', template')
    /\ pc' = "done"
    /\ UNCHANGED <<sh_ten, prepend, allow, resA, tensIn, resB, resB2, state_dict,
                   prefix, resS, ranks, resR>>

NextOpaque == SaveOpaque \/ LoadOpaque

SpecOpaque == InitOpaque /\ [][NextOpaque]_vars

(***************************************************************************)
(* Claims on the Opaque scenario.                                          *)
(***************************************************************************)
\* The opaque leaves at or below value v, in the order of the walk.
RECURSIVE OpaqueLeaves(_)
RECURSIVE OpaqueLeavesIn(_, _)
OpaqueLeaves(v) ==
    IF v.kind = "BytesIO" THEN <<v>>
    ELSE IF v.kind = "dict" THEN OpaqueLeavesIn(v.items, 1)
    ELSE <<>>

OpaqueLeavesIn(items, i) ==
    IF i > Len(items) THEN <<>> ELSE OpaqueLeaves(items[i].v) \o OpaqueLeavesIn(items, i + 1)

\* The ShardedObject wrappers at or below value v, in the order of the walk.
RECURSIVE Wrappers(_)
RECURSIVE WrappersIn(_, _)
Wrappers(v) ==
    IF v.kind = "ShardedObject" THEN <<v>>
    ELSE IF v.kind = "dict" THEN WrappersIn(v.items, 1)
    ELSE <<>>

WrappersIn(items, i) ==
    IF i > Len(items) THEN <<>> ELSE Wrappers(items[i].v) \o WrappersIn(items, i + 1)

\* Where the template has a skip marker and the checkpoint cp0 a value, the
\* checkpoint cp1 has the same value, at every depth.
RECURSIVE OpaqueKept(_, _, _)
OpaqueKept(cp0, cp1, tmpl) ==
    \A k \in Range(Keys(tmpl)) :
        HasKey(cp0, k) =>
            /\ HasKey(cp1, k)
            /\ Get(tmpl, k).kind = "ShardedObject" => Get(cp1, k) = Get(cp0, k)
            /\ Get(tmpl, k).kind = "dict" => OpaqueKept(Get(cp0, k), Get(cp1, k), Get(tmpl, k))

\* The calls splitForSave made to toDialectAObject, in order.
ObjectCalls == SelectSeq(resS.calls, LAMBDA c : c.fn = "toDialectAObject")

\* C12: opaque leaves are never shape-validated.  splitForSave wraps every
\* byte blob it meets, at any depth, by toDialectAObject: the wrapper holds
\* the blob itself, and its shape and offset come from the prepend offset
\* alone; a call that gets past the layer assertion fails only in the
\* translation of a tensor leaf, never at an opaque leaf.  mergeLoaded leaves
\* what the checkpoint holds at a skip marker in place, whatever the call's
\* outcome, and fails at no skip marker: with no descriptor list in the
\* template it ends normally or with a missing-key error.
C12_OpaqueNeverValidated ==
    /\ SplitWalked =>
          /\ \A n \in DOMAIN ObjectCalls :
                ObjectCalls[n].leaf = OpaqueLeavesIn(state_dict.items, 1)[n]
          /\ resS.status # "ok" => resS.calls[Len(resS.calls)].fn = "toDialectA"
          /\ resS.status = "ok" =>
                /\ Len(ObjectCalls) = Len(OpaqueLeavesIn(state_dict.items, 1))
                /\ Len(WrappersIn(resS.state_dict.items, 1)) = Len(ObjectCalls)
                /\ \A n \in DOMAIN ObjectCalls :
                      LET w == WrappersIn(resS.state_dict.items, 1)[n]
                          c == ObjectCalls[n]
                      IN /\ w.data = c.leaf
                         /\ w.key = StrCat(c.prefix, c.key)
                         /\ IF c.prepend_offsets = <<>>
                            THEN w.global_shape = <<1>> /\ w.global_offset = <<0>>
                            ELSE /\ w.global_shape = <<c.prepend_offsets[1][3]>>
                                 /\ w.global_offset = <<c.prepend_offsets[1][2]>>
    /\ Called =>
          /\ OpaqueKept(checkpoint, resM.checkpoint, template)
          /\ resM.template = template \/ \E k \in Range(Keys(template)) : HasListLeaf(Get(template, k))
          /\ (\A k \in Range(Keys(template)) : ~HasListLeaf(Get(template, k))) =>
                resM.status \in {"ok", "KeyError"}

\* C12 witness: splitForSave wrapped a blob two mappings below a layer-stack
\* key, and mergeLoaded returned with the blob the load put there, of another
\* size than the saved one, still in place.
C12_Witness ==
    /\ resS.status = "ok" /\ resM.status = "ok"
    /\ \E n \in DOMAIN state_dict.items :
          /\ IsLayerKey(state_dict.items[n].k)
          /\ OpaqueLeaves(state_dict.items[n].v) = <<Blob(6)>>
          /\ Len(Wrappers(template.items[n].v)) = 1
          /\ Wrappers(template.items[n].v)[1].data = Blob(6)
          /\ HasKey(resM.checkpoint, state_dict.items[n].k)
          /\ OpaqueLeaves(Get(resM.checkpoint, state_dict.items[n].k)) = <<Blob(7)>>

(***************************************************************************)
(* Scenario Ranks: the local shards of one logical tensor are spread over  *)
(* several ranks, and every rank runs toDialectA on its own shards.        *)
(***************************************************************************)
RECURSIVE SumSeq(_)
SumSeq(s) == IF s = <<>> THEN 0 ELSE Head(s) + SumSeq(Tail(s))

\* The ways to cut an axis of extent e into consecutive non-empty pieces.
Cuts(e) == {s \in SeqsUpTo(1..e, e) : Len(s) >= 1 /\ SumSeq(s) = e}

\* The ways to give the pieces to n ranks: every rank holds at least one
\* piece and at most MaxShards of them.
Owners(pieces, n) ==
    {o \in [DOMAIN pieces -> 1..n] :
        \A r \in 1..n :
            LET mine == {i \in DOMAIN pieces : o[i] = r}
            IN mine # {} /\ Cardinality(mine) <= MaxShards}

\* Piece i of a tensor of the given shape cut along its first axis.
PieceBox(shape, pieces, i) ==
    [offsets |-> [j \in DOMAIN shape |->
                     IF j = 1 THEN SumSeq(Take(pieces, i - 1)) ELSE 0],
     sizes |-> [shape EXCEPT ![1] = pieces[i]]]

\* The Dialect-B tensor rank r holds: the declared total size, and the
\* pieces it owns as local shards, in the order of their offsets.
RankTensor(shape, pieces, o, r) ==
    LET mine == SelectSeq([i \in DOMAIN pieces |-> i], LAMBDA i : o[i] = r)
    IN [kind |-> "TorchShardedTensor", size |-> shape,
        local_shards |-> [n \in DOMAIN mine |->
            ShardRecord(PieceBox(shape, pieces, mine[n]), mine[n], "rank:0/cuda:0")]]

RankPrepends == {<<>>, <<<<0, 1, 2>>>>}

InitRanks ==
    /\ pc = "ranks"
    /\ \E shape \in GeomShapes, n \in 1..MaxRanks :
          \E pieces \in Cuts(shape[1]) :
              \E o \in Owners(pieces, n) :
                  /\ ranks = [r \in 1..n |-> RankTensor(shape, pieces, o, r)]
                  /\ resR = [r \in 1..n |-> Idle]
    /\ prepend \in RankPrepends
    /\ sh_ten = None /\ allow = FALSE
    /\ resA = Idle /\ tensIn = <<>> /\ resB = Idle /\ resB2 = Idle
    /\ checkpoint = None /\ template = None /\ resM = Idle
    /\ state_dict = None /\ prefix = EmptyStr /\ resS = Idle

\* Rank r translates its tensor.
RankToDialectA(r) ==
    /\ pc = "ranks"
    /\ resR[r] = Idle
    /\ resR' = [resR EXCEPT ![r] =
                  TorchToMcoreShardedTensor(GeomKey, ranks[r], prepend, EmptyStr, allow)]
    /\ UNCHANGED <<pc, sh_ten, prepend, allow, resA, tensIn, resB, resB2, checkpoint,
                   template, resM, state_dict, prefix, resS, ranks>>

NextRanks == \E r \in DOMAIN ranks : RankToDialectA(r)

SpecRanks == InitRanks /\ [][NextRanks]_vars

(***************************************************************************)
(* Claims on the Ranks scenario.                                           *)
(***************************************************************************)
AllRanksDone == /\ pc = "ranks"
                /\ \A r \in DOMAIN ranks : resR[r].status = "ok"

\* The descriptors of all ranks, as <<rank, position>>.
AllDescriptors == {<<r, i>> : r \in DOMAIN ranks, i \in 1..MaxShards} \cap
                  {x \in (DOMAIN ranks) \X (1..MaxShards) :
                      x[2] <= Len(resR[x[1]].local_shards)}

\* The index points of a tensor of the given shape.
Cells(shape) ==
    IF Len(shape) = 1 THEN {<<a>> : a \in 0..(shape[1] - 1)}
    ELSE {<<a, b>> : a \in 0..(shape[1] - 1), b \in 0..(shape[2] - 1)}

\* The descriptor's region [global_offset, global_offset + local extent) on
\* the real axes holds the cell.
InRegion(d, cell) ==
    LET go == Drop(d.global_offset, d.prepend_axis_num)
    IN \A j \in DOMAIN cell :
          go[j] <= cell[j] /\ cell[j] < go[j] + d.local_shape[j]

\* C10: once every rank has translated its shards of the tensor (the pieces
\* partition it, equal in extent or not), all descriptors carry the declared
\* total size as global_shape on the real axes, and every index point of the
\* tensor lies in the region of exactly one descriptor.
C10_CrossRankTiling ==
    AllRanksDone =>
        /\ \A x \in AllDescriptors :
              LET d == resR[x[1]].local_shards[x[2]]
              IN Drop(d.global_shape, d.prepend_axis_num) = ranks[1].size
        /\ \A cell \in Cells(ranks[1].size) :
              Cardinality({x \in AllDescriptors :
                  InRegion(resR[x[1]].local_shards[x[2]], cell)}) = 1

====
